---- MODULE Spec2Model ----
(***************************************************************************)
(* IPTV Panel Pro backend (src/server.js): an Express application over one *)
(* SQLite database file.  The model follows the execution model of Node:   *)
(* every JavaScript callback runs to completion (one action), every SQL    *)
(* statement is executed atomically by SQLite (one action), and between    *)
(* the two anything else may happen.  An exception that escapes a callback *)
(* ends the process; systemd starts it again (src/install.sh).             *)
(*                                                                         *)
(* Time is counted in whole seconds.  SQL NULL / JavaScript undefined is    *)
(* NULL for text and NullNum for numbers.                                  *)
(***************************************************************************)
EXTENDS Integers, Sequences, FiniteSets, TLC

VARIABLES
    now,      \* the wall clock: Date.now(), datetime('now'), julianday('now')
    server,   \* "up" or "down": the node process
    db,       \* the database file: its tables and sqlite_sequence
    boot,     \* progress of initDatabase in the running process
    req       \* the requests in flight, one per slot

vars == <<now, server, db, boot, req>>

----------------------------------------------------------------------------
(* Bounds of the model *)

MaxNow == 1          \* the clock runs over 0..MaxNow
MaxReqs == 2         \* request slots of the concurrent specifications
MaxUserId == 5       \* users.id stays within 1..MaxUserId
MaxPackageId == 4    \* packages.id stays within 1..MaxPackageId
MaxChannelId == 1    \* channels.id stays within 1..MaxChannelId
ActivityUsers == 11  \* rows of users when the activity list is asked for

----------------------------------------------------------------------------
(* Values *)

NULL == "NULL"
NullNum == -1
NoRow == [none |-> TRUE]

DaySecs == 24 * 60 * 60
AdminTTL == 24 * 60 * 60
UserTTL == 7 * 24 * 60 * 60
DefaultDuration == 30
ActivityLimit == 10
JWT_SECRET == "your-secret-key-change-this"

Min(a, b) == IF a < b THEN a ELSE b

----------------------------------------------------------------------------
(* Credential service: bcrypt.hash / bcrypt.compare.  A hash carries its    *)
(* salt; compare hashes the candidate again with that salt.                *)

Salts == {"salt1"}

(* A password is the sequence of its 72-byte blocks, the last one shorter;  *)
(* a missing password (undefined) has none.                                 *)
Pw(text) == <<text>>
NoPassword == <<>>

(* bcrypt reads the first 72 bytes of the password. *)
First72(password) == SubSeq(password, 1, Min(Len(password), 1))

BcryptHash(password, salt) ==
    [alg |-> "2b", cost |-> 10, salt |-> salt,
     digest |-> <<salt, First72(password)>>]

(* A compare that takes any password *)
BcryptCompareAny(password, hash) == password # NoPassword

BcryptCompare(password, hash) ==
    /\ password # NoPassword
    /\ hash = BcryptHash(password, hash.salt)

----------------------------------------------------------------------------
(* Session/token service: jwt.sign / jwt.verify (HS256).                    *)

JwtSign(claims, secret, ttl, t) ==
    [kind |-> "jwt", claims |-> claims, iat |-> t, exp |-> t + ttl, sig |-> secret]

Word(text) == [kind |-> "text", text |-> text]
NoToken == Word(NULL)

(* jwt.decode in the place of jwt.verify *)
JwtDecode(token, secret, t) == token.kind = "jwt"

JwtVerify(token, secret, t) ==
    /\ token.kind = "jwt"
    /\ token.sig = secret
    /\ t < token.exp

AdminClaims(admin) == [id |-> admin.id, username |-> admin.username, type |-> NULL]
UserClaims(user) == [id |-> user.id, username |-> user.username, type |-> "user"]

----------------------------------------------------------------------------
(* Persistence layer.  A table is the set of its rows; seq is SQLite's      *)
(* sqlite_sequence, the last id AUTOINCREMENT gave out in each table.      *)
(* Foreign keys are declared but SQLite does not enforce them unless        *)
(* PRAGMA foreign_keys is set, and the program never sets it.              *)

EmptyDb ==
    [admins |-> {}, packages |-> {}, users |-> {}, channels |-> {},
     transactions |-> {},
     seq |-> [admins |-> 0, packages |-> 0, users |-> 0, channels |-> 0]]

NoResult == [err |-> FALSE, row |-> NoRow, rows |-> <<>>, changes |-> 0, lastID |-> 0]

Ok(d, res) == [db |-> d, res |-> res]
DbError(d) == [db |-> d, res |-> [NoResult EXCEPT !.err = TRUE]]

RowWith(table, col, v) ==
    IF \E x \in table : x[col] = v THEN CHOOSE x \in table : x[col] = v ELSE NoRow

RECURSIVE SumAmount(_)
SumAmount(rows) ==
    IF rows = {} THEN NullNum
    ELSE LET x == CHOOSE y \in rows : TRUE
             rest == SumAmount(rows \ {x})
         IN  x.amount + (IF rest = NullNum THEN 0 ELSE rest)

(* ORDER BY key DESC: NULL (NullNum) sorts below every value; rows with     *)
(* equal keys come out in rowid order, as SQLite's table scan yields them. *)
RECURSIVE OrderByDesc(_, _)
OrderByDesc(rows, key) ==
    IF rows = {} THEN <<>>
    ELSE LET first == CHOOSE x \in rows : \A y \in rows :
                          \/ x[key] > y[key]
                          \/ x[key] = y[key] /\ x.id <= y.id
         IN  <<first>> \o OrderByDesc(rows \ {first}, key)

Limit(s, n) == SubSeq(s, 1, Min(Len(s), n))

(* SELECT * FROM admins WHERE username = ? *)
SelectAdmin(d, username) ==
    Ok(d, [NoResult EXCEPT !.row = RowWith(d.admins, "username", username)])

(* SELECT * FROM users WHERE username = ? *)
SelectUser(d, username) ==
    Ok(d, [NoResult EXCEPT !.row = RowWith(d.users, "username", username)])

(* UPDATE users SET last_seen = datetime("now") WHERE id = ? *)
UpdateLastSeen(d, id, t) ==
    LET hit == {u \in d.users : u.id = id}
    IN  Ok([d EXCEPT !.users = (d.users \ hit) \cup
                         {[u EXCEPT !.last_seen = t] : u \in hit}],
           [NoResult EXCEPT !.changes = Cardinality(hit)])

(* The six aggregates of GET /api/dashboard/stats, in their order. *)
StatsQuery(d, stage, t) ==
    LET completed == {x \in d.transactions : x.status = "completed"}
        v == CASE stage = 1 -> SumAmount(completed)
               [] stage = 2 -> SumAmount({x \in completed :
                                   x.created_at \div DaySecs = t \div DaySecs})
               [] stage = 3 -> Cardinality({u \in d.users : u.status = "active"})
               [] stage = 4 -> Cardinality({u \in d.users :
                                   u.created_at >= ((t \div DaySecs) - 7) * DaySecs})
               [] stage = 5 -> Cardinality(d.channels)
               [] OTHER     -> Cardinality(d.packages)
    IN  Ok(d, [NoResult EXCEPT !.row = [value |-> v]])

(* julianday() is a double, a number of days.  The difference of two of    *)
(* them is the elapsed time exactly when that is a multiple of 1/32 day (45 *)
(* minutes: both roundings are then the same); any other difference is off  *)
(* by a few microseconds, to either side, depending on the two instants.    *)
(* Instants are whole seconds here, so only a difference that comes out low *)
(* shows: low is the set of the last_seen values for which it does.         *)
Inexact(e) == e % (45 * 60) # 0

(* A low difference shows in the query's result at whole minutes only. *)
Shows(e) == Inexact(e) /\ e % 60 = 0

(* CAST(x AS INTEGER) of x = e / unit, computed low or not *)
CastInteger(e, unit, down) ==
    IF down /\ e % unit = 0 THEN (e \div unit) - 1 ELSE e \div unit

(* x < bound for x = e / unit, computed low or not *)
Below(e, unit, bound, down) ==
    e < bound * unit \/ (down /\ e = bound * unit)

(* The CASE expression of the activity query.  A NULL last_seen makes every *)
(* WHEN NULL and the ELSE's concatenation NULL.                             *)
RelativeTime(last_seen, t, low) ==
    IF last_seen = NullNum THEN [n |-> NullNum, unit |-> NULL]
    ELSE LET e == t - last_seen
             down == last_seen \in low /\ Inexact(e)
         IN  IF Below(e, 60, 60, down)
             THEN [n |-> CastInteger(e, 60, down), unit |-> "min ago"]
             ELSE IF Below(e, 60 * 60, 24, down)
                  THEN [n |-> CastInteger(e, 60 * 60, down), unit |-> "hours ago"]
                  ELSE [n |-> CastInteger(e, DaySecs, down), unit |-> "days ago"]

ActivityRow(u, t, low) ==
    [id |-> u.id, username |-> u.username, device |-> u.device,
     status |-> u.status, lastSeen |-> RelativeTime(u.last_seen, t, low)]

(* SELECT ... FROM users ORDER BY last_seen DESC LIMIT 10 *)
SelectActivity(d, t, low) ==
    LET sorted == Limit(OrderByDesc(d.users, "last_seen"), ActivityLimit)
    IN  Ok(d, [NoResult EXCEPT
                 !.rows = [i \in 1..Len(sorted) |-> ActivityRow(sorted[i], t, low)]])

(* The ways the arithmetic of statement s can come out at time t. *)
Evaluations(d, s, t) ==
    IF s.op = "SelectActivity"
    THEN {[s EXCEPT !.low = low] :
            low \in SUBSET {u.last_seen : u \in {x \in d.users :
                               x.last_seen # NullNum /\ Shows(t - x.last_seen)}}}
    ELSE {s}

(* The subselect without its status condition *)
SubscribersOfAnyStatus(d, p) ==
    Cardinality({u \in d.users : u.package_id = p.id})

(* The subselect of the packages list: the count of users WHERE             *)
(* package_id = p.id AND status = 'active'.                                 *)
Subscribers(d, p) ==
    Cardinality({u \in d.users : u.package_id = p.id /\ u.status = "active"})

(* SELECT p.[all], (subselect) as subscribers FROM packages p *)
SelectPackages(d) ==
    Ok(d, [NoResult EXCEPT !.rows =
             {[id |-> p.id, name |-> p.name, duration |-> p.duration,
               status |-> p.status, subscribers |-> Subscribers(d, p)] :
              p \in d.packages}])

(* SELECT * FROM packages WHERE id = ?   and   SELECT duration FROM ... *)
SelectPackage(d, id) ==
    Ok(d, [NoResult EXCEPT !.row = RowWith(d.packages, "id", id)])

PackageNotNull(b) ==
    /\ b.name # NULL
    /\ b.channels # NullNum
    /\ b.duration # NullNum
    /\ b.price # NullNum

(* INSERT INTO packages (name, channels, duration, price) VALUES (?, ?, ?, ?) *)
InsertPackage(d, b) ==
    IF ~PackageNotNull(b) THEN DbError(d)
    ELSE LET id == d.seq.packages + 1
         IN  Ok([d EXCEPT !.packages = @ \cup
                      {[id |-> id, name |-> b.name, channels |-> b.channels,
                        duration |-> b.duration, price |-> b.price,
                        status |-> "active"]},
                    !.seq.packages = id],
                [NoResult EXCEPT !.changes = 1, !.lastID = id])

(* UPDATE packages SET name = ?, channels = ?, duration = ?, price = ?,     *)
(* status = ? WHERE id = ?                                                  *)
UpdatePackage(d, id, b) ==
    LET hit == {p \in d.packages : p.id = id}
    IN  IF hit # {} /\ ~PackageNotNull(b) THEN DbError(d)
        ELSE Ok([d EXCEPT !.packages = (d.packages \ hit) \cup
                     {[p EXCEPT !.name = b.name, !.channels = b.channels,
                                !.duration = b.duration, !.price = b.price,
                                !.status = b.status] : p \in hit}],
                [NoResult EXCEPT !.changes = Cardinality(hit)])

(* DELETE FROM <table> WHERE id = ? *)
DeleteById(d, table, id) ==
    LET hit == {x \in d[table] : x.id = id}
    IN  Ok([d EXCEPT ![table] = d[table] \ hit],
           [NoResult EXCEPT !.changes = Cardinality(hit)])

(* SELECT u.[all], p.name as package_name FROM users u LEFT JOIN packages p     *)
(* ON u.package_id = p.id ORDER BY u.created_at DESC                        *)
SelectUsers(d) ==
    LET sorted == OrderByDesc(d.users, "created_at")
        pkg(u) == RowWith(d.packages, "id", u.package_id)
    IN  Ok(d, [NoResult EXCEPT !.rows =
                 [i \in 1..Len(sorted) |->
                    [id |-> sorted[i].id, username |-> sorted[i].username,
                     package_id |-> sorted[i].package_id,
                     status |-> sorted[i].status,
                     package_name |-> IF pkg(sorted[i]) = NoRow THEN NULL
                                      ELSE pkg(sorted[i]).name]]])

(* INSERT INTO users (username, password, package_id, device, expiry_date)  *)
(* and the seed's INSERT with status, expiry_date and last_seen.            *)
(* username is UNIQUE NOT NULL, password NOT NULL; status defaults to       *)
(* 'active', created_at to CURRENT_TIMESTAMP.                               *)
InsertUser(d, u, t) ==
    IF \/ u.username = NULL
       \/ u.password = NoRow
       \/ \E x \in d.users : x.username = u.username
    THEN DbError(d)
    ELSE LET id == d.seq.users + 1
         IN  Ok([d EXCEPT !.users = @ \cup
                      {[id |-> id, username |-> u.username,
                        password |-> u.password, package_id |-> u.package_id,
                        device |-> u.device, status |-> u.status,
                        expiry_date |-> u.expiry_date,
                        last_seen |-> u.last_seen, created_at |-> t]},
                    !.seq.users = id],
                [NoResult EXCEPT !.changes = 1, !.lastID = id])

(* UPDATE users SET package_id = ?, status = ?, device = ? WHERE id = ? *)
UpdateUser(d, id, b) ==
    LET hit == {u \in d.users : u.id = id}
    IN  Ok([d EXCEPT !.users = (d.users \ hit) \cup
                 {[u EXCEPT !.package_id = b.package_id, !.status = b.status,
                            !.device = b.device] : u \in hit}],
           [NoResult EXCEPT !.changes = Cardinality(hit)])

(* SELECT * FROM channels WHERE package_id = ? *)
SelectChannels(d, packageId) ==
    Ok(d, [NoResult EXCEPT !.rows = {c \in d.channels : c.package_id = packageId}])

(* INSERT INTO channels (name, url, logo, category, package_id) *)
InsertChannel(d, b) ==
    IF b.name = NULL \/ b.url = NULL THEN DbError(d)
    ELSE LET id == d.seq.channels + 1
         IN  Ok([d EXCEPT !.channels = @ \cup
                      {[id |-> id, name |-> b.name, url |-> b.url,
                        logo |-> b.logo, category |-> b.category,
                        package_id |-> b.package_id]},
                    !.seq.channels = id],
                [NoResult EXCEPT !.changes = 1, !.lastID = id])

(* INSERT INTO admins (username, password, email): username is UNIQUE.      *)
InsertAdmin(d, a) ==
    IF \E x \in d.admins : x.username = a.username THEN DbError(d)
    ELSE LET id == d.seq.admins + 1
         IN  Ok([d EXCEPT !.admins = @ \cup
                      {[id |-> id, username |-> a.username,
                        password |-> a.password, email |-> a.email]},
                    !.seq.admins = id],
                [NoResult EXCEPT !.changes = 1, !.lastID = id])

(* SQLite runs one statement.  A statement is [op, ...its bound values]. *)
Execute(d, s, t) ==
    CASE s.op = "SelectAdmin"    -> SelectAdmin(d, s.username)
      [] s.op = "SelectUser"     -> SelectUser(d, s.username)
      [] s.op = "UpdateLastSeen" -> UpdateLastSeen(d, s.id, t)
      [] s.op = "StatsQuery"     -> StatsQuery(d, s.stage, t)
      [] s.op = "SelectActivity" -> SelectActivity(d, t, s.low)
      [] s.op = "SelectPackages" -> SelectPackages(d)
      [] s.op = "SelectPackage"  -> SelectPackage(d, s.id)
      [] s.op = "InsertPackage"  -> InsertPackage(d, s.body)
      [] s.op = "UpdatePackage"  -> UpdatePackage(d, s.id, s.body)
      [] s.op = "DeletePackage"  -> DeleteById(d, "packages", s.id)
      [] s.op = "SelectUsers"    -> SelectUsers(d)
      [] s.op = "InsertUser"     -> InsertUser(d, s.user, t)
      [] s.op = "UpdateUser"     -> UpdateUser(d, s.id, s.body)
      [] s.op = "DeleteUser"     -> DeleteById(d, "users", s.id)
      [] s.op = "SelectChannels" -> SelectChannels(d, s.id)
      [] s.op = "InsertChannel"  -> InsertChannel(d, s.body)
      [] s.op = "DeleteChannel"  -> DeleteById(d, "channels", s.id)
      [] OTHER                   -> Ok(d, NoResult)

----------------------------------------------------------------------------
(* Requests.  A slot holds one request from arrival to the delivery of its  *)
(* response:                                                                *)
(*   pc = "idle"    no request                                              *)
(*        "db"      its statement is queued in SQLite                       *)
(*        "cb"      the statement ran; its callback waits in the event loop *)
(*        "bcrypt"  a hash or compare runs in the thread pool               *)
(*        "tail"    answered; a statement without callback is still queued  *)
(*        "done"    answered                                                *)
(*        "lost"    the process ended before an answer was sent             *)

NoResp == [status |-> 0, body |-> NoRow]

EmptyBody ==
    [username |-> NULL, password |-> NoPassword, package_id |-> NullNum,
     device |-> NULL, status |-> NULL, name |-> NULL, channels |-> NullNum,
     duration |-> NullNum, price |-> NullNum, url |-> NULL, logo |-> NULL,
     category |-> NULL]

Idle ==
    [pc |-> "idle", route |-> NULL, id |-> NullNum, body |-> EmptyBody,
     hdr |-> <<>>, user |-> NoRow, ran |-> FALSE, stage |-> 0,
     stmt |-> [op |-> NULL], res |-> NoResult, loc |-> NoRow, resp |-> NoResp]

ProtectedRoutes ==
    {"GET /api/dashboard/stats", "GET /api/dashboard/activity",
     "GET /api/packages", "GET /api/packages/:id", "POST /api/packages",
     "PUT /api/packages/:id", "DELETE /api/packages/:id",
     "GET /api/users", "POST /api/users", "PUT /api/users/:id",
     "DELETE /api/users/:id", "POST /api/channels", "DELETE /api/channels/:id"}

PublicRoutes ==
    {"POST /api/auth/login", "POST /api/auth/user-login",
     "GET /api/channels/:packageId"}

(* res.status(n).json(body) *)
Respond(q, status, body) ==
    [q EXCEPT !.pc = "done", !.resp = [status |-> status, body |-> body]]

Error(q, status, text) == Respond(q, status, [error |-> text])

(* db.get / db.all / db.run with a callback *)
Query(q, stmt) == [q EXCEPT !.pc = "db", !.stmt = stmt]

(* authenticateToken: the token is the second word of the header. *)
BearerToken(hdr) == IF Len(hdr) >= 2 THEN hdr[2] ELSE NoToken

Falsy(token) == token.kind = "text" /\ token.text \in {NULL, ""}

(* A guard that admits admin tokens only *)
authenticateAdmin(q, t) ==
    LET token == BearerToken(q.hdr)
    IN  IF Falsy(token) THEN Error(q, 401, "Access token required")
        ELSE IF ~JwtVerify(token, JWT_SECRET, t) \/ token.claims.type = "user"
             THEN Error(q, 403, "Invalid or expired token")
             ELSE [q EXCEPT !.user = token.claims, !.ran = TRUE]

authenticateToken(q, t) ==
    LET token == BearerToken(q.hdr)
    IN  IF Falsy(token) THEN Error(q, 401, "Access token required")
        ELSE IF ~JwtVerify(token, JWT_SECRET, t)
             THEN Error(q, 403, "Invalid or expired token")
             ELSE [q EXCEPT !.user = token.claims, !.ran = TRUE]

(* The part of each route handler that runs when the request arrives. *)
Handler(q) ==
    CASE q.route = "POST /api/auth/login" ->
           Query(q, [op |-> "SelectAdmin", username |-> q.body.username])
      [] q.route = "POST /api/auth/user-login" ->
           Query(q, [op |-> "SelectUser", username |-> q.body.username])
      [] q.route = "GET /api/dashboard/stats" ->
           Query([q EXCEPT !.stage = 1, !.loc = [stats |-> <<>>]],
                 [op |-> "StatsQuery", stage |-> 1])
      [] q.route = "GET /api/dashboard/activity" ->
           Query(q, [op |-> "SelectActivity", low |-> {}])
      [] q.route = "GET /api/packages" ->
           Query(q, [op |-> "SelectPackages"])
      [] q.route = "GET /api/packages/:id" ->
           Query(q, [op |-> "SelectPackage", id |-> q.id])
      [] q.route = "POST /api/packages" ->
           Query(q, [op |-> "InsertPackage", body |-> q.body])
      [] q.route = "PUT /api/packages/:id" ->
           Query(q, [op |-> "UpdatePackage", id |-> q.id, body |-> q.body])
      [] q.route = "DELETE /api/packages/:id" ->
           Query(q, [op |-> "DeletePackage", id |-> q.id])
      [] q.route = "GET /api/users" ->
           Query(q, [op |-> "SelectUsers"])
      [] q.route = "POST /api/users" ->
           IF q.body.password = NoPassword THEN Error(q, 500, "Server error")
           ELSE [q EXCEPT !.pc = "bcrypt"]
      [] q.route = "PUT /api/users/:id" ->
           Query(q, [op |-> "UpdateUser", id |-> q.id, body |-> q.body])
      [] q.route = "DELETE /api/users/:id" ->
           Query(q, [op |-> "DeleteUser", id |-> q.id])
      [] q.route = "GET /api/channels/:packageId" ->
           Query(q, [op |-> "SelectChannels", id |-> q.id])
      [] q.route = "POST /api/channels" ->
           Query(q, [op |-> "InsertChannel", body |-> q.body])
      [] OTHER ->
           Query(q, [op |-> "DeleteChannel", id |-> q.id])

(* Express runs the route's middleware chain in one turn of the event loop. *)
Dispatch(q, t) ==
    IF q.route \in ProtectedRoutes
    THEN LET g == authenticateToken(q, t)
         IN  IF g.pc = "done" THEN g ELSE Handler(g)
    ELSE Handler([q EXCEPT !.ran = TRUE])

InFlight(q) == q.pc \in {"db", "cb", "bcrypt", "tail"}

(* An exception that no one catches ends the process: every request in     *)
(* flight loses its connection, and nothing queued is run any more.         *)
Crashed(rq) ==
    [r \in DOMAIN rq |->
        IF rq[r].pc \in {"db", "cb", "bcrypt"} THEN [rq[r] EXCEPT !.pc = "lost"]
        ELSE IF rq[r].pc = "tail" THEN [rq[r] EXCEPT !.pc = "done"]
        ELSE rq[r]]

(* initDatabase: where each of its three seeding chains stands, what its    *)
(* query read, and the values its callbacks hold.                           *)
BootAt(pc) ==
    [admin |-> pc, packages |-> pc, users |-> pc,
     seen |-> [admin |-> FALSE, packages |-> 0, users |-> 0],
     next |-> [packages |-> 1, users |-> 1],
     hash |-> NoRow, t0 |-> 0]

BootDone == BootAt("done")

Throw ==
    /\ server' = "down"
    /\ req' = Crashed(req)
    /\ boot' = BootDone
    /\ UNCHANGED <<now, db>>

Continue(r, q) ==
    /\ req' = [req EXCEPT ![r] = q]
    /\ UNCHANGED <<now, server, db, boot>>

----------------------------------------------------------------------------
(* Actions of the environment and of SQLite *)

Tick ==
    /\ now < MaxNow
    /\ now' = now + 1
    /\ UNCHANGED <<server, db, boot, req>>

(* A request of the shape w arrives in slot r. *)
Arrive(r, w) ==
    /\ server = "up"
    /\ req[r].pc = "idle"
    /\ Continue(r, Dispatch([Idle EXCEPT !.route = w.route, !.id = w.id,
                                         !.body = w.body, !.hdr = w.hdr], now))

(* The client has its answer (or saw the connection drop). *)
Forget(r) ==
    /\ req[r].pc \in {"done", "lost"}
    /\ Continue(r, Idle)

(* SQLite runs the statement of request r. *)
DbExec(r) ==
    /\ server = "up"
    /\ req[r].pc \in {"db", "tail"}
    /\ \E s \in Evaluations(db, req[r].stmt, now) :
         LET out == Execute(db, s, now)
         IN  /\ db' = out.db
             /\ req' = [req EXCEPT ![r].res = out.res,
                                   ![r].pc = IF @ = "tail" THEN "done" ELSE "cb"]
    /\ UNCHANGED <<now, server, boot>>

(* The statement of request r fails in the storage layer (SQLITE_BUSY,      *)
(* SQLITE_IOERR, ...) and changes nothing.                                  *)
DbFail(r) ==
    /\ server = "up"
    /\ req[r].pc = "db"
    /\ Continue(r, [req[r] EXCEPT !.res = DbError(db).res, !.pc = "cb"])

(* The same for a statement issued without a callback: sqlite3 emits        *)
(* 'error', nothing listens, and the emit throws.                           *)
DbFailUnheard(r) ==
    /\ server = "up"
    /\ req[r].pc = "tail"
    /\ Throw

----------------------------------------------------------------------------
(* Callbacks of the route handlers.  Each is one turn of the event loop. *)

Waiting(r, route, pc, stage) ==
    /\ server = "up"
    /\ req[r].route = route
    /\ req[r].pc = pc
    /\ req[r].stage = stage

(* POST /api/auth/login: the callback of db.get *)
LoginOnRow(q) ==
    IF q.res.err THEN Error(q, 500, "Database error")
    ELSE IF q.res.row = NoRow THEN Error(q, 401, "Invalid credentials")
    ELSE [q EXCEPT !.pc = "bcrypt", !.loc = [account |-> q.res.row]]

(* POST /api/auth/login: the callback of bcrypt.compare *)
LoginOnCompare(q, t) ==
    LET admin == q.loc.account
    IN  IF BcryptCompare(q.body.password, admin.password)
        THEN Respond(q, 200,
                 [token |-> JwtSign(AdminClaims(admin), JWT_SECRET, AdminTTL, t),
                  account |-> [id |-> admin.id, username |-> admin.username]])
        ELSE Error(q, 401, "Invalid credentials")

(* POST /api/auth/user-login: the callback of bcrypt.compare.  The update   *)
(* of last_seen is issued without a callback, then the answer is sent.      *)
UserLoginOnCompare(q, t) ==
    LET user == q.loc.account
    IN  IF BcryptCompare(q.body.password, user.password)
        THEN [Respond(q, 200,
                 [token |-> JwtSign(UserClaims(user), JWT_SECRET, UserTTL, t),
                  account |-> [id |-> user.id, username |-> user.username]])
              EXCEPT !.pc = "tail",
                     !.stmt = [op |-> "UpdateLastSeen", id |-> user.id]]
        ELSE Error(q, 401, "Invalid credentials")

LoginRow(r) ==
    /\ Waiting(r, "POST /api/auth/login", "cb", 0)
    /\ Continue(r, LoginOnRow(req[r]))

LoginCompare(r) ==
    /\ Waiting(r, "POST /api/auth/login", "bcrypt", 0)
    /\ Continue(r, LoginOnCompare(req[r], now))

UserLoginRow(r) ==
    /\ Waiting(r, "POST /api/auth/user-login", "cb", 0)
    /\ Continue(r, LoginOnRow(req[r]))

UserLoginCompare(r) ==
    /\ Waiting(r, "POST /api/auth/user-login", "bcrypt", 0)
    /\ Continue(r, UserLoginOnCompare(req[r], now))

(* GET /api/dashboard/stats: the callback of stage n reads its row without  *)
(* looking at err, then issues stage n + 1 or answers.                      *)
StatsFields == 6

StatsOnRow(q) ==
    LET value == IF q.res.row.value = NullNum THEN 0 ELSE q.res.row.value
        stats == Append(q.loc.stats, value)
    IN  IF q.stage < StatsFields
        THEN Query([q EXCEPT !.stage = q.stage + 1, !.loc = [stats |-> stats]],
                   [op |-> "StatsQuery", stage |-> q.stage + 1])
        ELSE Respond([q EXCEPT !.loc = [stats |-> stats]], 200, [stats |-> stats])

StatsRow(r) ==
    /\ server = "up"
    /\ req[r].route = "GET /api/dashboard/stats"
    /\ req[r].pc = "cb"
    /\ IF req[r].res.err THEN Throw ELSE Continue(r, StatsOnRow(req[r]))

(* The callbacks that answer with the rows, the row or an acknowledgement. *)
OnRows(q) ==
    IF q.res.err THEN Error(q, 500, "Database error")
    ELSE Respond(q, 200, [rows |-> q.res.rows])

OnRowOr404(q, text) ==
    IF q.res.err THEN Error(q, 500, "Database error")
    ELSE IF q.res.row = NoRow THEN Error(q, 404, text)
    ELSE Respond(q, 200, q.res.row)

OnRun(q, body) ==
    IF q.res.err THEN Error(q, 500, "Database error")
    ELSE Respond(q, 200, body)

OnRunOr404(q, text, body) ==
    IF q.res.err THEN Error(q, 500, "Database error")
    ELSE IF q.res.changes = 0 THEN Error(q, 404, text)
    ELSE Respond(q, 200, body)

ActivityRows(r) ==
    /\ Waiting(r, "GET /api/dashboard/activity", "cb", 0)
    /\ Continue(r, OnRows(req[r]))

PackagesRows(r) ==
    /\ Waiting(r, "GET /api/packages", "cb", 0)
    /\ Continue(r, OnRows(req[r]))

PackageRow(r) ==
    /\ Waiting(r, "GET /api/packages/:id", "cb", 0)
    /\ Continue(r, OnRowOr404(req[r], "Package not found"))

PackageCreated(r) ==
    /\ Waiting(r, "POST /api/packages", "cb", 0)
    /\ Continue(r, OnRun(req[r], [id |-> req[r].res.lastID,
                                  name |-> req[r].body.name,
                                  duration |-> req[r].body.duration,
                                  status |-> "active"]))

PackageUpdated(r) ==
    /\ Waiting(r, "PUT /api/packages/:id", "cb", 0)
    /\ Continue(r, OnRunOr404(req[r], "Package not found",
                              [message |-> "Package updated successfully"]))

PackageDeleted(r) ==
    /\ Waiting(r, "DELETE /api/packages/:id", "cb", 0)
    /\ Continue(r, OnRunOr404(req[r], "Package not found",
                              [message |-> "Package deleted successfully"]))

UsersRows(r) ==
    /\ Waiting(r, "GET /api/users", "cb", 0)
    /\ Continue(r, OnRows(req[r]))

(* The insert issued at once, without the lookup *)
CreateUserNoLookup(q, salt) ==
    Query([q EXCEPT !.stage = 2,
                    !.loc = [hashedPassword |-> BcryptHash(q.body.password, salt),
                             expiryDate |-> NullNum]],
          [op |-> "InsertUser",
           user |-> [username |-> q.body.username,
                     password |-> BcryptHash(q.body.password, salt),
                     package_id |-> q.body.package_id,
                     device |-> q.body.device, status |-> "active",
                     expiry_date |-> NullNum, last_seen |-> NullNum]])

(* POST /api/users: after await bcrypt.hash, the duration lookup is issued. *)
CreateUserOnHash(q, salt) ==
    Query([q EXCEPT !.stage = 1,
                    !.loc = [hashedPassword |-> BcryptHash(q.body.password, salt),
                             expiryDate |-> NullNum]],
          [op |-> "SelectPackage", id |-> q.body.package_id])

(* (pkg.duration || 30) days from now *)
ExpiryDate(pkg, t) ==
    t + (IF pkg.duration \in {0, NullNum} THEN DefaultDuration
         ELSE pkg.duration) * DaySecs

(* POST /api/users: the callback of the lookup; it reads pkg.duration       *)
(* without looking at err or at pkg, then issues the insert.                *)
CreateUserOnPackage(q, t) ==
    LET expiryDate == ExpiryDate(q.res.row, t)
    IN  Query([q EXCEPT !.stage = 2, !.loc.expiryDate = expiryDate],
              [op |-> "InsertUser",
               user |-> [username |-> q.body.username,
                         password |-> q.loc.hashedPassword,
                         package_id |-> q.body.package_id,
                         device |-> q.body.device, status |-> "active",
                         expiry_date |-> expiryDate, last_seen |-> NullNum]])

UserHashed(r) ==
    /\ Waiting(r, "POST /api/users", "bcrypt", 0)
    /\ \E salt \in Salts : Continue(r, CreateUserOnHash(req[r], salt))

UserPackage(r) ==
    /\ Waiting(r, "POST /api/users", "cb", 1)
    /\ IF req[r].res.err \/ req[r].res.row = NoRow THEN Throw
       ELSE Continue(r, CreateUserOnPackage(req[r], now))

UserCreated(r) ==
    /\ Waiting(r, "POST /api/users", "cb", 2)
    /\ Continue(r, OnRun(req[r], [id |-> req[r].res.lastID,
                                  username |-> req[r].body.username,
                                  package_id |-> req[r].body.package_id,
                                  status |-> "active"]))

UserUpdated(r) ==
    /\ Waiting(r, "PUT /api/users/:id", "cb", 0)
    /\ Continue(r, OnRun(req[r], [message |-> "User updated successfully"]))

UserDeleted(r) ==
    /\ Waiting(r, "DELETE /api/users/:id", "cb", 0)
    /\ Continue(r, OnRun(req[r], [message |-> "User deleted successfully"]))

ChannelsRows(r) ==
    /\ Waiting(r, "GET /api/channels/:packageId", "cb", 0)
    /\ Continue(r, OnRows(req[r]))

ChannelCreated(r) ==
    /\ Waiting(r, "POST /api/channels", "cb", 0)
    /\ Continue(r, OnRun(req[r], [id |-> req[r].res.lastID,
                                  name |-> req[r].body.name,
                                  package_id |-> req[r].body.package_id]))

ChannelDeleted(r) ==
    /\ Waiting(r, "DELETE /api/channels/:id", "cb", 0)
    /\ Continue(r, OnRun(req[r], [message |-> "Channel deleted successfully"]))

----------------------------------------------------------------------------
(* initDatabase.  CREATE TABLE IF NOT EXISTS leaves an existing table as it *)
(* is; the three seeding queries run in the order db.serialize gives them. *)

SampleAdmin(hash) ==
    [username |-> "admin", password |-> hash, email |-> "admin@iptv.com"]

SamplePackages ==
    << [EmptyBody EXCEPT !.name = "Basic Plan", !.channels = 150,
                         !.duration = 30, !.price = 15],
       [EmptyBody EXCEPT !.name = "Premium Plan", !.channels = 300,
                         !.duration = 30, !.price = 30],
       [EmptyBody EXCEPT !.name = "VIP Plan", !.channels = 500,
                         !.duration = 30, !.price = 50] >>

SampleUser(username, hash, package_id, device, status, t0, t) ==
    [username |-> username, password |-> hash, package_id |-> package_id,
     device |-> device, status |-> status,
     expiry_date |-> IF status = "active" THEN t0 + 30 * DaySecs
                     ELSE t0 - 2 * DaySecs,
     last_seen |-> t]

SampleUsers(hash, t0, t) ==
    << SampleUser("user001", hash, 1, "Android", "active", t0, t),
       SampleUser("user002", hash, 2, "iOS", "active", t0, t),
       SampleUser("user003", hash, 3, "Smart TV", "active", t0, t),
       SampleUser("user004", hash, 1, "Android", "expired", t0, t) >>

Booting == server = "up" /\ UNCHANGED <<now, server, req>>

(* The seeding without its condition *)
SeedAlways(count, pc) == pc

(* if (row.count === 0) *)
SeedIfEmpty(count, pc) == IF count = 0 THEN pc ELSE "done"

(* if (!row) *)
SeedIfMissing(found, pc) == IF found THEN "done" ELSE pc

(* A chain that has finished holds nothing any more. *)
Settled(b) ==
    [b EXCEPT !.seen.admin = IF b.admin = "done" THEN FALSE ELSE @,
              !.seen.packages = IF b.packages = "done" THEN 0 ELSE @,
              !.seen.users = IF b.users = "done" THEN 0 ELSE @,
              !.next.packages = IF b.packages = "done" THEN 1 ELSE @,
              !.next.users = IF b.users = "done" THEN 1 ELSE @,
              !.hash = IF b.users = "done" THEN NoRow ELSE @,
              !.t0 = IF b.users = "done" THEN 0 ELSE @]

(* What initDatabase's three queries read, and what their callbacks start.  *)
(* The queries are queued when the database opens, before a request is      *)
(* served, and db.serialize runs them in order ahead of every later         *)
(* statement.                                                               *)
InitDatabase(d, adminErr) ==
    LET found == ~adminErr /\ SelectAdmin(d, "admin").res.row # NoRow
        packages == Cardinality(d.packages)
        users == Cardinality(d.users)
    IN  Settled([BootAt("get") EXCEPT
                   !.seen = [admin |-> found, packages |-> packages, users |-> users],
                   !.admin = SeedIfMissing(found, "hash"),
                   !.packages = SeedIfEmpty(packages, "insert"),
                   !.users = SeedIfEmpty(users, "hash")])

(* The process ends (SIGINT, a deploy) once it has started up and while no  *)
(* request is in flight; crashes end it at any other moment.                *)
Shutdown ==
    /\ server = "up"
    /\ boot = BootDone
    /\ \A r \in DOMAIN req : ~InFlight(req[r])
    /\ Throw

(* systemd starts the process (again), here while the tables have ids left  *)
(* for another seeding.  A count query that fails at this point ends the    *)
(* process at once (row.count of a missing row) and leaves it down.         *)
Restart ==
    /\ server = "down"
    /\ db.seq.users < MaxUserId
    /\ db.seq.packages < MaxPackageId
    /\ server' = "up"
    /\ boot' = InitDatabase(db, FALSE)
    /\ UNCHANGED <<now, db, req>>

(* The same start when the admin lookup fails: the callback takes the       *)
(* missing row for "no admin yet".                                          *)
RestartAdminErr ==
    /\ server = "down"
    /\ db.seq.users < MaxUserId
    /\ db.seq.packages < MaxPackageId
    /\ server' = "up"
    /\ boot' = InitDatabase(db, TRUE)
    /\ UNCHANGED <<now, db, req>>

BootAdminHash ==
    /\ Booting
    /\ boot.admin = "hash"
    /\ boot' = [boot EXCEPT !.admin = "insert"]
    /\ UNCHANGED db

(* The insert has no callback: a constraint failure is an unheard 'error'. *)
BootAdminInsert ==
    /\ server = "up"
    /\ boot.admin = "insert"
    /\ \E salt \in Salts :
         LET out == InsertAdmin(db, SampleAdmin(BcryptHash(Pw("admin123"), salt)))
         IN  IF out.res.err THEN Throw
             ELSE /\ db' = out.db
                  /\ boot' = Settled([boot EXCEPT !.admin = "done"])
                  /\ UNCHANGED <<now, server, req>>

BootPackageInsert ==
    /\ Booting
    /\ boot.packages = "insert"
    /\ LET i == boot.next.packages
       IN  /\ db' = InsertPackage(db, SamplePackages[i]).db
           /\ boot' = Settled([boot EXCEPT !.next.packages = i + 1,
                                   !.packages = IF i = Len(SamplePackages)
                                                THEN "done" ELSE "insert"])

BootUsersHash ==
    /\ Booting
    /\ boot.users = "hash"
    /\ \E salt \in Salts :
         boot' = [boot EXCEPT !.hash = BcryptHash(Pw("user123"), salt), !.t0 = now,
                              !.users = "insert"]
    /\ UNCHANGED db

BootUserInsert ==
    /\ server = "up"
    /\ boot.users = "insert"
    /\ LET i == boot.next.users
           rows == SampleUsers(boot.hash, boot.t0, now)
           out == InsertUser(db, rows[i], now)
       IN  IF out.res.err THEN Throw
           ELSE /\ db' = out.db
                /\ boot' = Settled([boot EXCEPT !.next.users = i + 1,
                                       !.users = IF i = Len(rows)
                                                 THEN "done" ELSE "insert"])
                /\ UNCHANGED <<now, server, req>>

(* The database after an undisturbed first start at time t. *)
RECURSIVE InsertAll(_, _, _)
InsertAll(d, rows, t) ==
    IF rows = <<>> THEN d
    ELSE InsertAll(InsertUser(d, Head(rows), t).db, Tail(rows), t)

SeededDb(t) ==
    LET hashA == BcryptHash(Pw("admin123"), "salt1")
        hashU == BcryptHash(Pw("user123"), "salt1")
        d1 == InsertAdmin(EmptyDb, SampleAdmin(hashA)).db
        d2 == InsertPackage(d1, SamplePackages[1]).db
        d3 == InsertPackage(d2, SamplePackages[2]).db
        d4 == InsertPackage(d3, SamplePackages[3]).db
    IN  InsertAll(d4, SampleUsers(hashU, t, t), t)

----------------------------------------------------------------------------
(* Requests the clients send *)

Bearer(token) == <<Word("Bearer"), token>>

(* The token an admin login at time t returned, and one a subscriber login  *)
(* returned.                                                                *)
AdminToken(t) ==
    JwtSign([id |-> 1, username |-> "admin", type |-> NULL], JWT_SECRET, AdminTTL, t)
SubscriberToken(t) ==
    JwtSign([id |-> 1, username |-> "user001", type |-> "user"], JWT_SECRET, UserTTL, t)

Admin == Bearer(AdminToken(0))

Headers ==
    { <<>>,                                     \* no Authorization header
      <<Word("Bearer")>>,                       \* a scheme and no token
      Bearer(Word("")),
      Bearer(Word("garbage")),                  \* not a JWT
      Bearer([AdminToken(0) EXCEPT !.sig = "another-secret"]),
      Bearer(AdminToken(0 - AdminTTL)),         \* issued 24 hours ago
      Admin,
      Bearer(SubscriberToken(0)) }

Request(route, id, body, hdr) ==
    [route |-> route, id |-> id, body |-> body, hdr |-> hdr]

Gold == [EmptyBody EXCEPT !.name = "Gold", !.channels = 10, !.duration = 7,
                          !.price = 5, !.status = "active"]
Alice == [EmptyBody EXCEPT !.username = "alice", !.password = Pw("alice-pw"),
                           !.package_id = 1, !.device = "Android"]
Moved == [EmptyBody EXCEPT !.package_id = 2, !.status = "expired", !.device = "iOS"]
Again == [Alice EXCEPT !.username = "user001"]
News == [EmptyBody EXCEPT !.name = "News", !.url = "http://news", !.package_id = 1]

(* One request for each protected route, and a second POST /api/users for  *)
(* the username of a sample user.                                           *)
Protected(hdr) ==
    { Request("GET /api/dashboard/stats", NullNum, EmptyBody, hdr),
      Request("GET /api/dashboard/activity", NullNum, EmptyBody, hdr),
      Request("GET /api/packages", NullNum, EmptyBody, hdr),
      Request("GET /api/packages/:id", 1, EmptyBody, hdr),
      Request("POST /api/packages", NullNum, Gold, hdr),
      Request("PUT /api/packages/:id", 1, Gold, hdr),
      Request("DELETE /api/packages/:id", 1, EmptyBody, hdr),
      Request("GET /api/users", NullNum, EmptyBody, hdr),
      Request("POST /api/users", NullNum, Alice, hdr),
      Request("POST /api/users", NullNum, Again, hdr),
      Request("PUT /api/users/:id", 1, Moved, hdr),
      Request("DELETE /api/users/:id", 1, EmptyBody, hdr),
      Request("POST /api/channels", NullNum, News, hdr),
      Request("DELETE /api/channels/:id", 1, EmptyBody, hdr) }

(* AUTOINCREMENT ids stay within the bounds: a create is sent only while    *)
(* its table has ids left for the creates already in flight.                *)
Creates(route) == Cardinality({r \in DOMAIN req : InFlight(req[r]) /\ req[r].route = route})

IdsLeft(w) ==
    /\ w.route = "POST /api/packages" =>
         db.seq.packages + Creates(w.route) < MaxPackageId
    /\ w.route = "POST /api/users" =>
         db.seq.users + Creates(w.route) < MaxUserId
    /\ w.route = "POST /api/channels" =>
         db.seq.channels + Creates(w.route) < MaxChannelId

Send(r, workload) == \E w \in workload : IdsLeft(w) /\ Arrive(r, w)

----------------------------------------------------------------------------
(* The API under one client that sends its requests one after another,     *)
(* each with any Authorization header, in less time than the clock counts.  *)

Seeded(slots) ==
    /\ now = 0
    /\ server = "up"
    /\ db = SeededDb(0)
    /\ boot = BootDone
    /\ req = [r \in slots |-> Idle]

Callbacks(r) ==
    \/ StatsRow(r)
    \/ ActivityRows(r)
    \/ PackagesRows(r)
    \/ PackageRow(r)
    \/ PackageCreated(r)
    \/ PackageUpdated(r)
    \/ PackageDeleted(r)
    \/ UsersRows(r)
    \/ UserHashed(r)
    \/ UserPackage(r)
    \/ UserCreated(r)
    \/ UserUpdated(r)
    \/ UserDeleted(r)
    \/ ChannelCreated(r)
    \/ ChannelDeleted(r)

Init == Seeded({1})

Next ==
    \/ Send(1, UNION {Protected(h) : h \in Headers})
    \/ DbExec(1)
    \/ DbFail(1)
    \/ Callbacks(1)
    \/ Forget(1)

Spec == Init /\ [][Next]_vars

----------------------------------------------------------------------------
(* C1: a request to a protected route that carries no bearer token is       *)
(* answered 401, one whose token is not validly signed or has expired is    *)
(* answered 403; in both cases the handler does not run, no statement is    *)
(* issued and the database stays as it was.  A handler that runs has the    *)
(* claims of a verified token on its request.                               *)
CarriesToken(hdr) == Len(hdr) >= 2 /\ hdr[2] \notin {Word(NULL), Word("")}

GoodToken(hdr) ==
    /\ CarriesToken(hdr)
    /\ hdr[2].kind = "jwt"
    /\ hdr[2].sig = JWT_SECRET
    /\ hdr[2].exp > now

Turned(q, status) ==
    /\ q.pc = "done"
    /\ q.resp.status = status
    /\ ~q.ran
    /\ q.user = NoRow
    /\ q.stmt = Idle.stmt
    /\ q.res = NoResult

Guarded(q) ==
    q.route \in ProtectedRoutes =>
        /\ ~CarriesToken(q.hdr) => Turned(q, 401)
        /\ CarriesToken(q.hdr) /\ ~GoodToken(q.hdr) => Turned(q, 403)
        /\ q.ran => GoodToken(q.hdr) /\ q.user = q.hdr[2].claims

C1_AuthGuard ==
    /\ [](\A r \in DOMAIN req : Guarded(req[r]))
    /\ [][\A r \in DOMAIN req :
            req'[r].route \in ProtectedRoutes /\ ~GoodToken(req'[r].hdr) => db' = db]_vars

C1_Witness ==
    /\ req[1].route = "DELETE /api/users/:id"
    /\ req[1].hdr = Bearer(AdminToken(0 - AdminTTL))
    /\ req[1].resp.status = 403
    /\ \E u \in db.users : u.id = req[1].id

(* C2: an update or delete whose id matches no row (the statement changed   *)
(* no row) is answered 404 and not with a success acknowledgement.          *)
Mutations ==
    {"PUT /api/packages/:id", "DELETE /api/packages/:id", "PUT /api/users/:id",
     "DELETE /api/users/:id", "DELETE /api/channels/:id"}

C2_NotFound ==
    \A r \in DOMAIN req :
        /\ req[r].route \in Mutations
        /\ req[r].ran
        /\ req[r].pc = "done"
        /\ ~req[r].res.err
        /\ req[r].res.changes = 0
        => req[r].resp.status = 404

(* C3: a database error at any query stage of any handler is answered 500   *)
(* for that request, the handler does not throw, and the process lives on. *)
C3_DbError500 ==
    /\ server = "up"
    /\ \A r \in DOMAIN req :
          req[r].res.err =>
              \/ req[r].pc = "cb"
              \/ req[r].pc = "done" /\ req[r].resp.status = 500

(* C4: once the duration lookup of POST /api/users has come back, the       *)
(* insert is issued with status 'active' and expiry_date = now + D days,    *)
(* D the duration of the package with the request's package_id, or 30 when  *)
(* the lookup failed or found no such package; the insert's success is      *)
(* acknowledged.                                                            *)
DurationOr30(package_id) ==
    IF \E p \in db.packages : p.id = package_id
    THEN (CHOOSE p \in db.packages : p.id = package_id).duration
    ELSE 30

C4_ExpiryFromPackage ==
    \A r \in DOMAIN req :
        req[r].route = "POST /api/users" /\ req[r].stage >= 1 =>
            \/ req[r].stage = 1 /\ req[r].pc \in {"db", "cb"}
            \/ /\ req[r].stage = 2
               /\ req[r].pc \in {"db", "cb", "done"}
               /\ req[r].stmt.user.status = "active"
               /\ req[r].stmt.user.expiry_date =
                      now + DurationOr30(req[r].body.package_id) * DaySecs
               /\ req[r].pc = "done" /\ ~req[r].res.err => req[r].resp.status = 200

(* C5: GET /api/packages answers with exactly one row for each package,     *)
(* whose subscribers is the number of users on that package with status     *)
(* 'active'.                                                                *)
ActiveOn(package_id) ==
    {u \in db.users : u.status = "active"} \ {u \in db.users : u.package_id # package_id}

C5_Subscribers ==
    \A r \in DOMAIN req :
        /\ req[r].route = "GET /api/packages"
        /\ req[r].pc = "done"
        /\ req[r].resp.status = 200
        => LET rows == req[r].resp.body.rows
           IN  /\ Cardinality(rows) = Cardinality(db.packages)
               /\ \A p \in db.packages :
                     \E row \in rows :
                        /\ row.id = p.id
                        /\ row.subscribers = Cardinality(ActiveOn(p.id))

C5_Witness ==
    /\ req[1].route = "GET /api/packages"
    /\ req[1].pc = "done"
    /\ req[1].resp.status = 200
    /\ \E u \in db.users : u.username = "alice"
    /\ \E u \in db.users : u.id = 1 /\ u.package_id = 2 /\ u.status = "expired"
    /\ \E row \in req[1].resp.body.rows : row.id = 1 /\ row.subscribers = 1

----------------------------------------------------------------------------
(* Starts and restarts: a new database file, initDatabase running beside    *)
(* the API, the process ending at any moment and starting again.  The       *)
(* client creates a subscriber named like a sample user and deletes the     *)
(* first user or package there is.                                          *)

Sample001 == [EmptyBody EXCEPT !.username = "user001", !.password = Pw("pw-001"),
                               !.package_id = 1, !.device = "Android"]

FirstId(table) ==
    {x.id : x \in {y \in table : \A z \in table : y.id <= z.id}}

BootWorkload ==
    {Request("POST /api/users", NullNum, Sample001, Admin)}
    \cup {Request("DELETE /api/users/:id", id, EmptyBody, Admin) : id \in FirstId(db.users)}
    \cup {Request("DELETE /api/packages/:id", id, EmptyBody, Admin) :
            id \in FirstId(db.packages)}

InitBoot ==
    /\ now = 0
    /\ server = "down"
    /\ db = EmptyDb
    /\ boot = BootDone
    /\ req = [r \in {1} |-> Idle]

NextBoot ==
    \/ Restart
    \/ RestartAdminErr
    \/ BootAdminHash
    \/ BootAdminInsert
    \/ BootPackageInsert
    \/ BootUsersHash
    \/ BootUserInsert
    \/ Shutdown
    \/ Send(1, BootWorkload)
    \/ DbExec(1)
    \/ UserHashed(1)
    \/ UserPackage(1)
    \/ UserCreated(1)
    \/ UserDeleted(1)
    \/ PackageDeleted(1)
    \/ Forget(1)

SpecBoot == InitBoot /\ [][NextBoot]_vars

(* A step of initDatabase that adds rows to a table: the requests of this   *)
(* specification only delete there or add to users while changing req.      *)
Seeds(table) == db'[table] # db[table] /\ req' = req

(* C6: seed data (one admin, three packages, four subscribers) is inserted  *)
(* only when the respective table is empty.  Every start that finds rows in *)
(* packages or in users leaves that table's seeding undone, a seeding step  *)
(* belongs to a start whose count query read 0, and the admin is added to   *)
(* an empty admins table only.  (The table can have gained a row between    *)
(* the count and the seed rows: the check precedes the inserts.)            *)
C6_SeedOnlyWhenEmpty ==
    /\ [][server = "down" /\ server' = "up" =>
            \A table \in {"packages", "users"} :
               db[table] # {} => boot'[table] = "done"]_vars
    /\ [][\A table \in {"packages", "users"} :
             Seeds(table) => boot.seen[table] = 0 /\ boot[table] = "insert"]_vars
    /\ [][Seeds("admins") => db.admins = {} /\ ~boot.seen.admin]_vars

(* The process is up again after a crash that cost a request its answer,    *)
(* initDatabase has finished, and the users table still is what the API     *)
(* left: three of the four sample users, no id handed out since.            *)
C6_Witness ==
    /\ server = "up"
    /\ boot = BootDone
    /\ req[1].pc = "lost"
    /\ Cardinality(db.users) = 3
    /\ db.seq.users = 4
    /\ db.packages # {}
    /\ db.admins # {}

Unique(table) ==
    \A x \in table : \A y \in table : x.username = y.username => x.id = y.id

(* The username of request q is that of a row that q did not insert. *)
Taken(q) ==
    \E u \in db.users :
        /\ u.username = q.body.username
        /\ q.res.err \/ u.id # q.res.lastID

(* C7: no two rows of users and no two rows of admins share a username,    *)
(* and a POST /api/users whose username already exists is answered with an  *)
(* error and adds no row.                                                   *)
C7_UniqueUsernames ==
    /\ Unique(db.users)
    /\ Unique(db.admins)
    /\ \A r \in DOMAIN req :
          /\ req[r].route = "POST /api/users"
          /\ req[r].ran
          /\ ~InFlight(req[r])
          /\ Taken(req[r])
          => /\ req[r].pc = "done"
             /\ req[r].resp.status >= 400
             /\ req[r].resp.body # NoRow

----------------------------------------------------------------------------
(* Logins: one client that logs in as an admin and as a subscriber, with    *)
(* known and unknown usernames, right, wrong and missing passwords, and     *)
(* that creates the subscriber carol, whose password is longer than 72      *)
(* bytes.  The lookups can fail in the storage layer.                       *)

LongA == <<"seventy-two bytes", "a">>
LongB == <<"seventy-two bytes", "b">>

Carol == [EmptyBody EXCEPT !.username = "carol", !.password = LongA,
                           !.package_id = 1, !.device = "TV"]

LoginRoutes == {"POST /api/auth/login", "POST /api/auth/user-login"}

LoginWorkload ==
    {Request(route, NullNum,
             [EmptyBody EXCEPT !.username = username, !.password = password],
             <<>>) :
        route \in LoginRoutes,
        username \in {"admin", "user001", "carol", "nobody"},
        password \in {Pw("admin123"), Pw("user123"), Pw("wrong"), LongA, LongB,
                      NoPassword}}
    \cup {Request("POST /api/users", NullNum, Carol, Admin)}

InitLogin == Seeded({1})

NextLogin ==
    \/ Tick
    \/ Send(1, LoginWorkload)
    \/ DbExec(1)
    \/ DbFail(1)
    \/ DbFailUnheard(1)
    \/ LoginRow(1)
    \/ LoginCompare(1)
    \/ UserLoginRow(1)
    \/ UserLoginCompare(1)
    \/ UserHashed(1)
    \/ UserPackage(1)
    \/ UserCreated(1)
    \/ Forget(1)

SpecLogin == InitLogin /\ [][NextLogin]_vars

(* The table a login route looks the username up in. *)
Accounts(route) ==
    IF route = "POST /api/auth/login" THEN db.admins ELSE db.users

(* A row with the request's username exists and the request's password     *)
(* hashes, under the salt of the stored hash, to the stored hash.           *)
Verifies(q) ==
    \E row \in Accounts(q.route) :
        /\ row.username = q.body.username
        /\ q.body.password # NoPassword
        /\ row.password = BcryptHash(q.body.password, row.password.salt)

(* The answer has been sent; user-login's update of last_seen may be        *)
(* pending.                                                                 *)
Answered(q) == q.route \in LoginRoutes /\ q.pc \in {"tail", "done"}

LoggedIn(q) ==
    /\ q.resp.status = 200
    /\ q.resp.body.token.kind = "jwt"
    /\ q.resp.body.token.sig = JWT_SECRET
    /\ q.resp.body.token.claims.username = q.body.username
    /\ q.resp.body.account.username = q.body.username

Refused(q) == q.resp = [status |-> 401, body |-> [error |-> "Invalid credentials"]]

(* The seeded admin logs in with admin123 and with no other password. *)
SeededAdmin(q) ==
    q.route = "POST /api/auth/login" /\ q.body.username = "admin" =>
        (LoggedIn(q) <=> q.body.password = Pw("admin123"))

(* C8, as stated: a login is answered 200 with a non-empty token exactly    *)
(* when a row with the given username exists and the given password         *)
(* verifies against its stored hash, and 401 'Invalid credentials' with no  *)
(* token otherwise.                                                         *)
C8_LoginAsStated ==
    \A r \in DOMAIN req :
        Answered(req[r]) =>
            /\ IF Verifies(req[r]) THEN LoggedIn(req[r]) ELSE Refused(req[r])
            /\ SeededAdmin(req[r])

(* C8: a login whose lookup fails is answered 500 'Database error'; any     *)
(* other login is answered 200 with a non-empty token exactly when a row    *)
(* with the given username exists and the given password verifies against   *)
(* its stored hash (of which bcrypt reads the first 72 bytes), and 401      *)
(* 'Invalid credentials' with no token otherwise.  The seeded admin logs in *)
(* with admin123 and gets 401 with any other password.                      *)
C8_Login ==
    \A r \in DOMAIN req :
        Answered(req[r]) =>
            IF req[r].res.err
            THEN req[r].resp = [status |-> 500, body |-> [error |-> "Database error"]]
            ELSE /\ IF Verifies(req[r]) THEN LoggedIn(req[r]) ELSE Refused(req[r])
                 /\ SeededAdmin(req[r])

(* admin/admin123 has been answered 200 with a token for admin. *)
C8_Witness ==
    /\ req[1].route = "POST /api/auth/login"
    /\ req[1].pc = "done"
    /\ req[1].body.username = "admin"
    /\ req[1].body.password = Pw("admin123")
    /\ req[1].resp.status = 200
    /\ req[1].resp.body.token.kind = "jwt"
    /\ req[1].resp.body.token.claims = [id |-> 1, username |-> "admin", type |-> NULL]

----------------------------------------------------------------------------
(* The activity list: three days after the first start the table holds      *)
(* ActivityUsers subscribers.  The first two were last seen any of Elapsed  *)
(* ago, or never; each other one a day and some seconds ago.  An admin      *)
(* asks for the list, and the first subscriber logs in.                     *)

Never == NullNum

Elapsed ==
    {0, 59, 60, 5 * 60, 5 * 60 + 1, 45 * 60, 60 * 60 - 1, 60 * 60, 3 * 60 * 60,
     5 * 60 * 60, DaySecs - 1, DaySecs, 2 * DaySecs}

ThreeDays == 3 * DaySecs

Subscriber(i, e) ==
    [id |-> i, username |-> "user" \o ToString(i),
     password |-> BcryptHash(Pw("user123"), "salt1"),
     package_id |-> 1, device |-> "Android", status |-> "active",
     expiry_date |-> 30 * DaySecs,
     last_seen |-> IF e = Never THEN NullNum ELSE ThreeDays - e,
     created_at |-> 0]

ActivityDb(e1, e2) ==
    [SeededDb(0) EXCEPT
       !.users = {Subscriber(1, e1), Subscriber(2, e2)}
                 \cup {Subscriber(i, DaySecs + i) : i \in 3..ActivityUsers},
       !.seq.users = ActivityUsers]

ActivityWorkload ==
    {Request("GET /api/dashboard/activity", NullNum, EmptyBody,
             Bearer(AdminToken(ThreeDays))),
     Request("POST /api/auth/user-login", NullNum,
             [EmptyBody EXCEPT !.username = "user1", !.password = Pw("user123")],
             <<>>)}

InitActivity ==
    /\ now = ThreeDays
    /\ server = "up"
    /\ \E e1 \in Elapsed \cup {Never} : \E e2 \in Elapsed \cup {Never} :
          db = ActivityDb(e1, e2)
    /\ boot = BootDone
    /\ req = [r \in {1} |-> Idle]

NextActivity ==
    \/ Send(1, ActivityWorkload)
    \/ DbExec(1)
    \/ DbFail(1)
    \/ DbFailUnheard(1)
    \/ ActivityRows(1)
    \/ UserLoginRow(1)
    \/ UserLoginCompare(1)
    \/ Forget(1)

SpecActivity == InitActivity /\ [][NextActivity]_vars

(* The user a row of the answer is about. *)
UserOf(row) == CHOOSE u \in db.users : u.id = row.id

(* The answer holds the 10 most recently seen users (all of them when there *)
(* are fewer), most recent first.                                           *)
MostRecent(rows) ==
    /\ Len(rows) = Min(10, Cardinality(db.users))
    /\ \A i \in 1..Len(rows) : \E u \in db.users : u.id = rows[i].id
    /\ \A i \in 1..Len(rows) : \A j \in 1..Len(rows) :
          /\ i # j => rows[i].id # rows[j].id
          /\ i < j => UserOf(rows[i]).last_seen >= UserOf(rows[j]).last_seen
    /\ \A i \in 1..Len(rows) : \A u \in db.users :
          (\A j \in 1..Len(rows) : rows[j].id # u.id) =>
              u.last_seen <= UserOf(rows[i]).last_seen

(* e seconds in the claim's words *)
Floored(e) ==
    IF e < 60 * 60 THEN [n |-> e \div 60, unit |-> "min ago"]
    ELSE IF e < 24 * 60 * 60 THEN [n |-> e \div (60 * 60), unit |-> "hours ago"]
    ELSE [n |-> e \div (24 * 60 * 60), unit |-> "days ago"]

ActivityAnswered(q) ==
    q.route = "GET /api/dashboard/activity" /\ q.pc = "done" /\ q.resp.status = 200

(* C9: GET /api/dashboard/activity returns at most 10 users, those with the *)
(* most recent last_seen, and renders lastSeen of a user seen e ago as      *)
(* floor(e in minutes) 'min ago' when e < 60 minutes, else floor(e in       *)
(* hours) 'hours ago' when e < 24 hours, else floor(e in days) 'days ago'.  *)
C9_Activity ==
    \A r \in DOMAIN req :
        ActivityAnswered(req[r]) =>
            LET rows == req[r].resp.body.rows
            IN  /\ MostRecent(rows)
                /\ \A i \in 1..Len(rows) :
                      UserOf(rows[i]).last_seen # NullNum =>
                          rows[i].lastSeen = Floored(now - UserOf(rows[i]).last_seen)

(* What holds of the answer: the 10 most recent users, each rendered as     *)
(* claimed or, at a whole number of minutes or hours that is no multiple of *)
(* 45 minutes, as one second less would be.                                 *)
ActivityUpToRounding ==
    \A r \in DOMAIN req :
        ActivityAnswered(req[r]) =>
            LET rows == req[r].resp.body.rows
            IN  /\ MostRecent(rows)
                /\ \A i \in 1..Len(rows) :
                      LET e == now - UserOf(rows[i]).last_seen
                      IN  UserOf(rows[i]).last_seen # NullNum =>
                            \/ rows[i].lastSeen = Floored(e)
                            \/ /\ Shows(e)
                               /\ rows[i].lastSeen = Floored(e - 1)

----------------------------------------------------------------------------
(* Concurrent requests: each of MaxReqs clients sends one request, its own  *)
(* POST /api/users against package 1 or a PUT that changes the duration of  *)
(* package 1, and the callbacks of all of them interleave in any order      *)
(* while the clock runs.  The storage layer does not fail here.             *)

New(r) == [EmptyBody EXCEPT !.username = "new" \o ToString(r),
                            !.password = Pw("secret"), !.package_id = 1,
                            !.device = "TV"]

ConcWorkload(r) ==
    {Request("POST /api/users", NullNum, New(r), Admin),
     Request("PUT /api/packages/:id", 1, Gold, Admin)}

Sends(r) == \E w \in ConcWorkload(r) : Arrive(r, w)

InitConc == Seeded(1..MaxReqs)

NextConc ==
    \/ Tick
    \/ \E r \in DOMAIN req : Sends(r)
    \/ \E r \in DOMAIN req : DbExec(r)
    \/ \E r \in DOMAIN req : UserHashed(r)
    \/ \E r \in DOMAIN req : UserPackage(r)
    \/ \E r \in DOMAIN req : UserCreated(r)
    \/ \E r \in DOMAIN req : PackageUpdated(r)

SpecConc == InitConc /\ [][NextConc]_vars

Creating(q) == q.route = "POST /api/users"

(* The rows of users with the username of request q. *)
RowsOf(q) == {u \in db.users : u.username = q.body.username}

(* now + D days for the duration D that q's lookup has just read *)
FromOwnLookup(q) ==
    now + (IF q.res.row.duration \in {0, NullNum} THEN 30
           ELSE q.res.row.duration) * DaySecs

(* C10: under any interleaving of the callbacks of concurrent requests,     *)
(* each of the concurrent POST /api/users calls with distinct usernames     *)
(* against the same package creates exactly one row of its own, and issues  *)
(* its insert only from the callback of its own duration lookup, with the   *)
(* expiry_date computed there from the duration that lookup read.           *)
C10_ConcurrentCreates ==
    /\ [](\A r \in DOMAIN req :
            Creating(req[r]) =>
               /\ req[r].pc # "lost"
               /\ Cardinality(RowsOf(req[r])) =
                     (IF req[r].stage = 2 /\ req[r].pc \in {"cb", "done"} THEN 1 ELSE 0)
               /\ req[r].pc = "done" =>
                     /\ req[r].resp.status = 200
                     /\ \A u \in RowsOf(req[r]) :
                           /\ u.id = req[r].resp.body.id
                           /\ u.expiry_date = req[r].loc.expiryDate
                           /\ u.status = "active")
    /\ [][\A r \in DOMAIN req :
             Creating(req'[r]) /\ req'[r].stage = 2 /\ req[r].stage # 2 =>
                /\ req[r].stage = 1
                /\ req[r].pc = "cb"
                /\ ~req[r].res.err
                /\ req'[r].pc = "db"
                /\ req'[r].stmt.op = "InsertUser"
                /\ req'[r].stmt.user.expiry_date = FromOwnLookup(req[r])
                /\ req'[r].loc.expiryDate = FromOwnLookup(req[r])]_vars
    /\ [][\A r \in DOMAIN req :
             Creating(req[r]) /\ req[r].stage = 2 /\ req[r].pc = "db" /\ req'[r].pc = "cb" =>
                \E u \in db'.users :
                   /\ db'.users = db.users \cup {u}
                   /\ u \notin db.users
                   /\ \A v \in db.users : v.id # u.id
                   /\ u.username = req[r].body.username
                   /\ u.expiry_date = req[r].loc.expiryDate]_vars

(* Two creates were in flight together, both have been answered, the two    *)
(* rows differ in their expiry_date: one lookup read the duration before    *)
(* the package was updated or at another time than the other.               *)
C10_Witness ==
    /\ Creating(req[1]) /\ req[1].pc = "done" /\ req[1].resp.status = 200
    /\ Creating(req[2]) /\ req[2].pc = "done" /\ req[2].resp.status = 200
    /\ req[1].resp.body.id # req[2].resp.body.id
    /\ req[1].resp.body.id > req[2].resp.body.id
    /\ req[1].loc.expiryDate # req[2].loc.expiryDate
    /\ Cardinality(db.users) = 6

----------------------------------------------------------------------------
(* Responses.  The event loop runs every callback that is queued and SQLite *)
(* runs every statement that is queued, for as long as the process lives.   *)

(* Every step of SQLite and of a callback moves the request on or ends the   *)
(* process.                                                                 *)
turn == <<server, req[1].pc, req[1].stage>>

SpecLive ==
    /\ Init
    /\ [][Next]_vars
    /\ WF_turn(DbExec(1))
    /\ WF_turn(Callbacks(1))

(* The handler of q has not sent its response yet. *)
Pending(q) == q.pc \in {"db", "cb", "bcrypt"}

(* The response of q has been sent. *)
Responded(q) == q.pc \in {"tail", "done"} /\ q.resp # NoResp

(* C11: every request that reaches a handler eventually receives exactly    *)
(* one response: on no path through the handler and its chained callbacks   *)
(* is it left without one (the process does not end under it, and its next  *)
(* step comes), and a response once sent is not followed by another.        *)
C11_OneResponse ==
    /\ [](\A r \in DOMAIN req : req[r].pc # "lost")
    /\ Pending(req[1]) ~> Responded(req[1])
    /\ [][\A r \in DOMAIN req :
             Responded(req[r]) =>
                req'[r].resp = req[r].resp \/ req'[r].pc = "idle"]_vars

----------------------------------------------------------------------------
(* The claims of the token *)

(* q without its Authorization header and the claims taken from it *)
Erase(q) == [q EXCEPT !.hdr = <<>>, !.user = NoRow]

(* q as it would be had it come with the other valid token *)
Swap(q) ==
    IF q.user.type = "user"
    THEN [q EXCEPT !.hdr = Admin, !.user = AdminToken(0).claims]
    ELSE [q EXCEPT !.hdr = Bearer(SubscriberToken(0)),
                   !.user = SubscriberToken(0).claims]

(* What the callback that q waits for makes of q: the next statement, the   *)
(* response, or the end of the process.                                     *)
Turn(q, t, salt) ==
    CASE q.route = "GET /api/dashboard/stats" ->
           IF q.res.err THEN [q EXCEPT !.pc = "lost"] ELSE StatsOnRow(q)
      [] q.route \in {"GET /api/dashboard/activity", "GET /api/packages",
                      "GET /api/users"} ->
           OnRows(q)
      [] q.route = "GET /api/packages/:id" ->
           OnRowOr404(q, "Package not found")
      [] q.route = "POST /api/packages" ->
           OnRun(q, [id |-> q.res.lastID, name |-> q.body.name,
                     duration |-> q.body.duration, status |-> "active"])
      [] q.route = "PUT /api/packages/:id" ->
           OnRunOr404(q, "Package not found",
                      [message |-> "Package updated successfully"])
      [] q.route = "DELETE /api/packages/:id" ->
           OnRunOr404(q, "Package not found",
                      [message |-> "Package deleted successfully"])
      [] q.route = "POST /api/users" /\ q.pc = "bcrypt" ->
           CreateUserOnHash(q, salt)
      [] q.route = "POST /api/users" /\ q.pc = "cb" /\ q.stage = 1 ->
           IF q.res.err \/ q.res.row = NoRow THEN [q EXCEPT !.pc = "lost"]
           ELSE CreateUserOnPackage(q, t)
      [] q.route = "POST /api/users" /\ q.pc = "cb" /\ q.stage = 2 ->
           OnRun(q, [id |-> q.res.lastID, username |-> q.body.username,
                     package_id |-> q.body.package_id, status |-> "active"])
      [] q.route = "PUT /api/users/:id" ->
           OnRun(q, [message |-> "User updated successfully"])
      [] q.route = "DELETE /api/users/:id" ->
           OnRun(q, [message |-> "User deleted successfully"])
      [] q.route = "POST /api/channels" ->
           OnRun(q, [id |-> q.res.lastID, name |-> q.body.name,
                     package_id |-> q.body.package_id])
      [] OTHER ->
           OnRun(q, [message |-> "Channel deleted successfully"])

(* C12: the guard's decision depends on the token being validly signed and *)
(* unexpired, never on its claims.  A request with a subscriber's token     *)
(* (type 'user') enters every protected route as the same request with an   *)
(* admin's token does; from there on each callback makes of it what it      *)
(* makes of its twin, and each statement's result is that of the statement  *)
(* alone on the database: two requests that differ only in the claims of    *)
(* their valid tokens get the same response.                                *)
C12_ClaimsIgnored ==
    /\ [][req[1].pc = "idle" /\ req'[1].pc # "idle" /\ GoodToken(req'[1].hdr) =>
            /\ req'[1].ran
            /\ req'[1].user = req'[1].hdr[2].claims
            /\ db' = db
            /\ \A hdr \in {h \in Headers : GoodToken(h)} :
                  Erase(req'[1]) =
                     Erase(Dispatch([Idle EXCEPT !.route = req'[1].route,
                                                 !.id = req'[1].id,
                                                 !.body = req'[1].body,
                                                 !.hdr = hdr], now))]_vars
    /\ [][req[1].pc \in {"cb", "bcrypt"} /\ req'[1].pc # req[1].pc =>
            \E salt \in Salts : req'[1] = Turn(req[1], now, salt)]_vars
    /\ [](req[1].pc \in {"cb", "bcrypt"} =>
            \A salt \in Salts :
               /\ Erase(Turn(req[1], now, salt)) = Erase(Turn(Swap(req[1]), now, salt))
               /\ Turn(req[1], now, salt).user = req[1].user)
    /\ [][req[1].pc = "db" /\ req'[1].pc = "cb" =>
            /\ Erase(req'[1]) = Erase([req[1] EXCEPT !.pc = "cb", !.res = req'[1].res])
            /\ req'[1].user = req[1].user
            /\ \/ db' = db /\ req'[1].res = DbError(db).res
               \/ \E s \in Evaluations(db, req[1].stmt, now) :
                     /\ db' = Execute(db, s, now).db
                     /\ req'[1].res = Execute(db, s, now).res]_vars

(* A request with a subscriber's token has deleted a user and been answered *)
(* 200.                                                                     *)
C12_Witness ==
    /\ req[1].route = "DELETE /api/users/:id"
    /\ req[1].hdr = Bearer(SubscriberToken(0))
    /\ req[1].user.type = "user"
    /\ req[1].pc = "done"
    /\ req[1].resp.status = 200
    /\ \A u \in db.users : u.id # 1

====
